---- MODULE Spec2Model ----
(***************************************************************************)
(* Selection-volume manipulation of wolf-gang-rs,                          *)
(* src/systems/selection_box.rs.                                           *)
(*                                                                         *)
(* The world holds, for every client, one Terrain and one Actor selection  *)
(* box entity.  Each legion system of the file is one action: the system   *)
(* body together with the commands it defers (exec_mut), which the         *)
(* schedule flushes before the next system runs.  The schedule itself is   *)
(* not part of the file, so the systems may run in any order.              *)
(*                                                                         *)
(* Integer grid points (Point, nalgebra::Vector3<i32>) are triples of      *)
(* integers.  f32 vectors (Vector3D) are triples of integers in units of   *)
(* 1/Scale.  Rotations by a multiple of a quarter turn are exact here; in  *)
(* f32 they leave a residue of the order of 1e-8 on the zero components,   *)
(* which normalize() keeps and round() removes.  NaN is one value outside   *)
(* the range of the finite ones, which the f32 operations of the resolver  *)
(* propagate and no comparison orders.                                     *)
(***************************************************************************)
EXTENDS Integers, Sequences, FiniteSets, TLC

\* ------------------------------------------------------------------ bounds
\* Messages a run may emit: every step that emits one is guarded by it.
MaxSent == 3
\* The same for the runs that press one axis only, which go deeper.
MaxDeep == 5
\* The same for the runs of the resolver under every camera.
MaxAxisSent == 1

\* --------------------------------------------------------------- constants
\* Fixed-point unit of the f32 vectors.
Scale == 1000
\* cos and sin of FRAC_PI_8 (the adjustment angle), in units of 1/Scale.
CosPi8 == 924
SinPi8 == 383

Clients == {1, 2}
\* The ClientID resource: the client whose input this process reads.
LocalClient == 1
Kinds == {"Terrain", "Actor"}
\* The selection box entities: one per client and tool kind.
Boxes == Clients \X Kinds

ClientOf(b) == b[1]
KindOf(b) == b[2]
BoxesOf(c) == {b \in Boxes : ClientOf(b) = c}

\* ----------------------------------------------------------------- vectors
Abs(n) == IF n < 0 THEN -n ELSE n
Sign(n) == IF n < 0 THEN -1 ELSE IF n > 0 THEN 1 ELSE 0

VAdd(a, b) == <<a[1] + b[1], a[2] + b[2], a[3] + b[3]>>
VSub(a, b) == <<a[1] - b[1], a[2] - b[2], a[3] - b[3]>>
VScale(a, k) == <<a[1] * k, a[2] * k, a[3] * k>>
VNeg(a) == VScale(a, -1)
Dot(a, b) == a[1] * b[1] + a[2] * b[2] + a[3] * b[3]
Zeros == <<0, 0, 0>>
Ones == <<1, 1, 1>>

\* Vector3D::x(), Vector3D::z() in units of 1/Scale.
UnitX == <<Scale, 0, 0>>
UnitZ == <<0, 0, Scale>>
Cardinals == {UnitX, VNeg(UnitX), UnitZ, VNeg(UnitZ)}

\* Integer division truncating toward zero, as Rust's `/` on i32.
TruncDiv(a, b) == Sign(a) * Sign(b) * (Abs(a) \div Abs(b))

\* f32::round (half away from zero) followed by `as i32`, on a value in
\* units of 1/Scale.
RoundI32(x) == Sign(x) * ((2 * Abs(x) + Scale) \div (2 * Scale))

\* ---------------------------------------------------------------- the state
VARIABLES
    coord_pos,   \* level_map::CoordPos of each box
    aabb,        \* SelectionBox.aabb of each box: [center, dimensions]
    active,      \* the boxes that carry the Active component
    visible,     \* the boxes whose mesh node is visible
    adjusted,    \* CameraAdjustedDirection of each box: [forward, right]
    rotation,    \* SelectionBoxRotation of each client's Actor box, in quarter turns about +Y
    entity_ref,  \* EntityRef of each client's Actor box: the preview actor, or NoEntity
    freed,       \* per client: node::free has run on the node of the preview EntityRef names
    updates,     \* the UpdateBounds entities, in storage order
    requests,    \* the ActivateTerrainToolBox / ActivateActorToolBox entities, by kind
    sent,        \* the MessageSender entities pushed so far, in order
    camera,      \* Direction of the camera at the resolver's last run, or NoCamera
    minConv,     \* which side AABB::get_min rounds an even width to
    trail,       \* history: the local deltas applied since the local client was last Idle
    last,        \* history: the system that ran last, with its input
    created,     \* the selection box entities initialize_selection_box has pushed
    early,       \* history: per kind, the waiting requests pushed while no box existed
    mesh,        \* MeshData of each box: the margin of the outline, the lengths of
                 \* verts, normals and uvs, and the indices
    fault,       \* the process has panicked
    tile         \* world units per grid cell on each axis (level_map), in units of 1/Scale

vars == <<coord_pos, aabb, active, visible, adjusted, rotation, entity_ref, freed,
          updates, requests, sent, camera, minConv, trail, last,
          created, early, mesh, fault, tile>>

\* The value of `entity_ref` for a box without an EntityRef component; actor
\* ids are other numbers.
NoEntity == 0
\* The value of `camera` before the resolver has run: no camera direction.
NoCamera == [forward |-> Zeros, right |-> Zeros]

\* MeshData::new(): no outline built yet.
NoMesh == [built |-> FALSE, margin |-> 0,
           verts |-> 0, normals |-> 0, uvs |-> 0, indices |-> <<>>]

\* AABB::new(center, dimensions)
NewAABB(center, dimensions) == [center |-> center, dimensions |-> dimensions]


\* ------------------------------------------------- octree::geometry::aabb
\* AABB<i32> belongs to the octree crate.  The file fixes only that get_max
\* is inclusive (create_system adds (1,1,1) to it to get the far face) and
\* that both are taken on absolute dimensions around the center.  For an
\* even width the center cannot be the middle cell: minConv says whether
\* the extra cell lies below the center ("low": min = center - |d|/2) or
\* above it ("high": min = center - (|d|-1)/2).  Both are kept.
MinOffset(d) ==
    IF minConv = "low" THEN TruncDiv(Abs(d), 2)
    ELSE IF d = 0 THEN 0 ELSE TruncDiv(Abs(d) - 1, 2)

GetMin(box) ==
    <<box.center[1] - MinOffset(box.dimensions[1]),
      box.center[2] - MinOffset(box.dimensions[2]),
      box.center[3] - MinOffset(box.dimensions[3])>>

GetMax(box) ==
    <<GetMin(box)[1] + Abs(box.dimensions[1]) - 1,
      GetMin(box)[2] + Abs(box.dimensions[2]) - 1,
      GetMin(box)[3] + Abs(box.dimensions[3]) - 1>>

\* The box in world cells, as create_system draws it around the node placed
\* at coord_pos: the near face and the far face on each axis.
WorldMin(pos, box) == VSub(VAdd(pos, GetMin(box)), box.center)
WorldMax(pos, box) == VSub(VAdd(pos, VAdd(GetMax(box), Ones)), box.center)

\* Rotation of a vector by k quarter turns about +Y (a right-handed rotation:
\* one quarter turn takes +Z to +X).
RotQuarter(v, k) ==
    LET q == k % 4
    IN  IF q = 0 THEN v
        ELSE IF q = 1 THEN <<v[3], v[2], -v[1]>>
        ELSE IF q = 2 THEN <<-v[1], v[2], -v[3]>>
        ELSE <<-v[3], v[2], v[1]>>

\* AABB::rotate by a quarter turn about +Y: the box turns about its own
\* center, so the X and Z widths change places.
RotateAABB(box, k) ==
    IF k % 2 = 0 THEN box
    ELSE [box EXCEPT !.dimensions =
              <<box.dimensions[3], box.dimensions[2], box.dimensions[1]>>]

\* -------------------------------------------------------------- AxisResolver
Cmp(x, y) == IF x < y THEN "Less" ELSE IF x = y THEN "Equal" ELSE "Greater"

\* f32 NaN: no finite value of the model comes near it.
NaN == 2147483647
HasNaN(v) == \E k \in 1..3 : v[k] = NaN
\* Vector3::dot: a NaN component makes the sum NaN, whatever it is multiplied
\* by.
FDot(a, b) == IF HasNaN(a) \/ HasNaN(b) THEN NaN ELSE Dot(a, b)
\* PartialOrd::partial_cmp on f32: None when either side is NaN.
PartialCmp(x, y) == IF x = NaN \/ y = NaN THEN "None" ELSE Cmp(x, y)

\* UnitQuaternion::from_axis_angle(up, adjust_angle * dir) * forward, for
\* dir in {-1, 1}; the result is in units of 1/Scale^2.
\* The turn mixes x and z, so a NaN in either reaches both.
RotateAdjust(v, dir) ==
    IF HasNaN(v) THEN <<NaN, NaN, NaN>>
    ELSE <<CosPi8 * v[1] + dir * SinPi8 * v[3],
           Scale * v[2],
           CosPi8 * v[3] - dir * SinPi8 * v[1]>>

\* The Ordering the comparator returns, or "None" where the unwrap() of its
\* last comparison finds None and panics.
get_forward_closest_axis(a, b, forward, right) ==
    LET a_dot == FDot(a, right)
        b_dot == FDot(b, right)
        cmp == PartialCmp(a_dot, b_dot)
        dot == IF cmp = "None" THEN 0 ELSE IF cmp = "Less" THEN a_dot ELSE b_dot
        sgn == PartialCmp(dot, 0)
        dir == IF sgn = "None" THEN 0 ELSE IF sgn = "Less" THEN -1 ELSE 1
        fwd == RotateAdjust(forward, dir)
    IN  PartialCmp(FDot(a, fwd), FDot(b, fwd))

\* std::cmp::min_by with the comparator above: the first argument unless the
\* comparison is Greater.
MinByAxis(v1, v2, forward, right) ==
    IF get_forward_closest_axis(v1, v2, forward, right) = "Greater" THEN v2 ELSE v1

\* normalize() of an axis-aligned vector.
Normalize(v) == <<Sign(v[1]) * Scale, Sign(v[2]) * Scale, Sign(v[3]) * Scale>>

\* The basis the resolver writes for a camera Direction dir.
ResolveBasis(dir) ==
    LET flat == <<dir.forward[1], 0, dir.forward[3]>>
        m1 == MinByAxis(UnitX, VNeg(UnitX), flat, dir.right)
        m2 == MinByAxis(VNeg(UnitZ), m1, flat, dir.right)
        fwd == MinByAxis(UnitZ, m2, flat, dir.right)
        rgt == RotQuarter(fwd, -1)
    IN  [forward |-> Normalize(fwd), right |-> Normalize(rgt)]

\* One of the three comparisons of the resolver panics.
ResolvePanics(dir) ==
    LET flat == <<dir.forward[1], 0, dir.forward[3]>>
        m1 == MinByAxis(UnitX, VNeg(UnitX), flat, dir.right)
        m2 == MinByAxis(VNeg(UnitZ), m1, flat, dir.right)
    IN  \/ get_forward_closest_axis(UnitX, VNeg(UnitX), flat, dir.right) = "None"
        \/ get_forward_closest_axis(VNeg(UnitZ), m1, flat, dir.right) = "None"
        \/ get_forward_closest_axis(UnitZ, m2, flat, dir.right) = "None"

\* CameraAdjustedDirection::default()
DefaultDirection == [forward |-> UnitZ, right |-> UnitX]

\* Camera directions (forward, in units of 1/Scale) the orientation source
\* may report: the four axes, two oblique ones, a pitched one, straight down.
CameraForwards ==
    {<<0, 0, 1000>>, <<1000, 0, 0>>, <<0, 0, -1000>>, <<-1000, 0, 0>>,
     <<574, 0, 819>>, <<-940, 0, 342>>, <<500, -500, -707>>, <<0, -1000, 0>>}
\* The camera's right is horizontal and perpendicular to its forward; both
\* handednesses are kept.  Looking straight down leaves it free.
CameraRights(f) ==
    IF f[1] = 0 /\ f[3] = 0 THEN {UnitX, VNeg(UnitZ)}
    ELSE {RotQuarter(<<f[1], 0, f[3]>>, -1), RotQuarter(<<f[1], 0, f[3]>>, 1)}
AllCameras ==
    UNION {{[forward |-> f, right |-> r] : r \in CameraRights(f)} : f \in CameraForwards}
\* The cameras of the main specification: one per resolved axis.
MainCameras ==
    {[forward |-> f, right |-> RotQuarter(f, -1)] :
        f \in {<<0, 0, 1000>>, <<1000, 0, 0>>, <<0, 0, -1000>>, <<-1000, 0, 0>>}}

\* The cameras of the movement specification: they resolve to a forward of
\* +Z and of -X.
MoveCameras ==
    {[forward |-> <<0, 0, -1000>>, right |-> <<1000, 0, 0>>],
     [forward |-> <<1000, 0, 0>>, right |-> <<0, 0, 1000>>]}
\* The camera of the expansion specification, which resolves to a right of -X.
ExpandCameras == {[forward |-> <<0, 0, -1000>>, right |-> <<1000, 0, 0>>]}

\* Directions with undefined components: in forward (x, z, the y the
\* resolver zeroes), in right, in both.
NaNForwards == {<<NaN, 0, 1000>>, <<0, 0, NaN>>, <<0, NaN, 1000>>, <<NaN, NaN, NaN>>}
NaNRights == {<<NaN, 0, 0>>, <<1000, NaN, 0>>, <<NaN, NaN, NaN>>}
NaNCameras ==
    {[forward |-> f, right |-> <<1000, 0, 0>>] : f \in NaNForwards}
        \cup {[forward |-> <<0, 0, 1000>>, right |-> r] : r \in NaNRights}
        \cup {[forward |-> <<0, NaN, 1000>>, right |-> <<NaN, 0, 0>>]}

\* Only boxes created with a camera node carry RelativeCamera: the local
\* client's.
HasRelativeCamera(b) == ClientOf(b) = LocalClient


\* ------------------------------------------------------------------ messages
UpdateSelectionBounds(c, pos, box) ==
    [type |-> "UpdateSelectionBounds", client_id |-> c, coord_pos |-> pos, aabb |-> box]
ActivateToolBox(kind, c) ==
    [type |-> IF kind = "Terrain" THEN "ActivateTerrainToolBox" ELSE "ActivateActorToolBox",
     client_id |-> c]
ActorToolRotation(c, k) == [type |-> "ActorToolRotation", client_id |-> c, rotation |-> k]
ActorToolSelection(c, id) == [type |-> "ActorToolSelection", client_id |-> c, actor_id |-> id]

\* DataType::MapChange { store_history, change }, the change being
\* MapInsertion { aabb, tile_data } or MapRemoval(aabb).
MapInsertion(c, box, tile_data) ==
    [type |-> "MapChange", store_history |-> c, change |-> "MapInsertion", aabb |-> box,
     tile_data |-> tile_data]
MapRemoval(c, box) ==
    [type |-> "MapChange", store_history |-> c, change |-> "MapRemoval", aabb |-> box]

\* DataType::ActorChange { store_history, change }, the change being
\* ActorInsertion { serialized } (the preview actor cloned with a new ActorID
\* and the CoordPos of the box) or ActorRemoval(actor_id).
ActorInsertion(c, preview, pos) ==
    [type |-> "ActorChange", store_history |-> c, change |-> "ActorInsertion",
     actor |-> preview, coord_pos |-> pos]
ActorRemoval(c, actor_id) ==
    [type |-> "ActorChange", store_history |-> c, change |-> "ActorRemoval",
     actor_id |-> actor_id]

\* UpdateBounds { coord_pos, aabb } pushed together with a ClientID.
UpdateBounds(c, pos, box) == [id |-> c, coord_pos |-> pos, aabb |-> box]

\* Variant of FindUpdate that takes the first UpdateBounds of any client.
FindUpdateAny(c) == IF updates # <<>> THEN 1 ELSE 0

\* query.iter_mut(world).find(|(_, id)| **id == client_id): the index of the
\* first UpdateBounds of client c, or 0.
FindUpdate(c) ==
    IF \E i \in 1..Len(updates) : updates[i].id = c
    THEN CHOOSE i \in 1..Len(updates) :
            /\ updates[i].id = c
            /\ \A j \in 1..(i - 1) : updates[j].id # c
    ELSE 0

\* ------------------------------------------------------------------- inputs
MoveActions ==
    {"move_forward", "move_back", "move_left", "move_right", "move_up", "move_down"}
ExpandActions ==
    {"expand_selection_forward", "expand_selection_back", "expand_selection_left",
     "expand_selection_right", "expand_selection_up", "expand_selection_down"}
RotateActions == {"rotate_selection_left", "rotate_selection_right"}

\* The inputs of one kind that are eligible to fire in one tick
\* (input_component.repeated), in the order the input query yields them: one
\* input, or two different ones.
Eligible(actions) ==
    {<<a>> : a \in actions}
        \cup {<<p[1], p[2]>> : p \in {q \in actions \X actions : q[1] # q[2]}}

\* The camera-local delta of a movement input.
Movement(action) ==
    IF action = "move_forward" THEN <<0, 0, 1>>
    ELSE IF action = "move_back" THEN <<0, 0, -1>>
    ELSE IF action = "move_left" THEN <<-1, 0, 0>>
    ELSE IF action = "move_right" THEN <<1, 0, 0>>
    ELSE IF action = "move_up" THEN <<0, 1, 0>>
    ELSE IF action = "move_down" THEN <<0, -1, 0>>
    ELSE Zeros

\* The camera-local delta of an expansion input.
Expansion(action) ==
    IF action = "expand_selection_forward" THEN <<0, 0, 1>>
    ELSE IF action = "expand_selection_back" THEN <<0, 0, -1>>
    ELSE IF action = "expand_selection_left" THEN <<-1, 0, 0>>
    ELSE IF action = "expand_selection_right" THEN <<1, 0, 0>>
    ELSE IF action = "expand_selection_down" THEN <<0, -1, 0>>
    ELSE IF action = "expand_selection_up" THEN <<0, 1, 0>>
    ELSE Zeros

\* Variant of AdjustedMovement without the rounding to i32.
AdjustedMovementUnrounded(dir, movement) ==
    <<dir.forward[1] * movement[3] + dir.right[1] * movement[1],
      movement[2],
      dir.forward[3] * movement[3] + dir.right[3] * movement[1]>>

\* The grid delta of a movement: the rounded horizontal components of forward
\* scaled by movement.z plus those of right scaled by movement.x; y as given.
AdjustedMovement(dir, movement) ==
    <<RoundI32(dir.forward[1]) * movement[3] + RoundI32(dir.right[1]) * movement[1],
      movement[2],
      RoundI32(dir.forward[3]) * movement[3] + RoundI32(dir.right[3]) * movement[1]>>

\* Variant of AdjustedExpansion that keeps the signs of the components.
AdjustedExpansionSigned(dir, expansion) == AdjustedMovement(dir, expansion)

\* The dimension delta of an expansion: the same with absolute components.
AdjustedExpansion(dir, expansion) ==
    <<Abs(RoundI32(dir.forward[1])) * expansion[3] + Abs(RoundI32(dir.right[1])) * expansion[1],
      expansion[2],
      Abs(RoundI32(dir.forward[3])) * expansion[3] + Abs(RoundI32(dir.right[3])) * expansion[1]>>

\* ---------------------------------------------------- expansion_movement_helper
\* Variant of ExpandedDimension without the rule for a width of zero.
ExpandedDimensionPlain(d, e) == d + e

\* The dimensions after an expansion: an axis the expansion brings to zero
\* gets twice the expansion on top.
ExpandedDimension(d, e) == IF d + e = 0 THEN d + e + e * 2 ELSE d + e
ExpandedDimensions(dimensions, expansion) ==
    <<ExpandedDimension(dimensions[1], expansion[1]),
      ExpandedDimension(dimensions[2], expansion[2]),
      ExpandedDimension(dimensions[3], expansion[3])>>

\* One component of the returned offset: the displacement of the max corner
\* when the new width is negative, of the min corner otherwise, min and max
\* having changed places when `swapped`.
HelperDiff(newDim, min, max, newMin, newMax, swapped) ==
    LET mn == IF swapped THEN max ELSE min
        mx == IF swapped THEN min ELSE max
        nmn == IF swapped THEN newMax ELSE newMin
        nmx == IF swapped THEN newMin ELSE newMax
    IN  IF newDim < 0 THEN nmx - mx ELSE nmn - mn

\* The sign tests on `right` are taken on the exact components.
\* [new_aabb, diff]: the box as the helper leaves it and the offset it returns.
expansion_movement_helper(expansion, dir, box) ==
    LET new == [box EXCEPT !.dimensions = ExpandedDimensions(box.dimensions, expansion)]
        min == GetMin(box)
        max == GetMax(box)
        nmin == GetMin(new)
        nmax == GetMax(new)
    IN  [new_aabb |-> new,
         diff |-> <<HelperDiff(new.dimensions[1], min[1], max[1], nmin[1], nmax[1],
                               dir.right[1] < 0),
                    HelperDiff(new.dimensions[2], min[2], max[2], nmin[2], nmax[2], FALSE),
                    HelperDiff(new.dimensions[3], min[3], max[3], nmin[3], nmax[3],
                               dir.right[3] < 0)>>]


\* ------------------------------------------------------------ create_system
\* level_map::map_coords_to_world belongs to another file of the repository:
\* a grid vector scaled, axis by axis, by the size of a cell.  The size is
\* not known here; two are kept.
UnitTile == <<Scale, Scale, Scale>>
TileSizes == {UnitTile, VScale(UnitTile, 2)}
map_coords_to_world(p) == <<p[1] * tile[1], p[2] * tile[2], p[3] * tile[3]>>

\* max_margin = 0.9, in units of 1/Scale.
MaxMargin == 900

Min(x, y) == IF x < y THEN x ELSE y

\* Variant of Margin that leaves out abs().
MarginSigned(box) ==
    LET true_dimensions == map_coords_to_world(box.dimensions)
        smaller_x == Min(MaxMargin, true_dimensions[1] \div 2)
        smaller_y == Min(MaxMargin, true_dimensions[2] \div 2)
        smaller_z == Min(MaxMargin, true_dimensions[3] \div 2)
    IN  Min(smaller_x, Min(smaller_y, smaller_z))

\* The margin of the outline of a box.
Margin(box) ==
    LET true_dimensions == map_coords_to_world(box.dimensions)
        abs_dimensions == <<Abs(true_dimensions[1]), Abs(true_dimensions[2]),
                            Abs(true_dimensions[3])>>
        smaller_x == Min(MaxMargin, abs_dimensions[1] \div 2)
        smaller_y == Min(MaxMargin, abs_dimensions[2] \div 2)
        smaller_z == Min(MaxMargin, abs_dimensions[3] \div 2)
    IN  Min(smaller_x, Min(smaller_y, smaller_z))

\* --------------------------------------------------------------------- Init
\* The world before any selection box exists (created = {}), or after
\* initialize_selection_box has run for every client and both tool kinds:
\* SelectionBox::new(), CoordPos::default(), the default direction, the
\* identity rotation, a hidden mesh, no Active mark.  The components of a box
\* that does not exist yet are the ones it will be created with.
Init ==
    /\ coord_pos = [b \in Boxes |-> Zeros]
    /\ aabb = [b \in Boxes |-> NewAABB(Zeros, Ones)]
    /\ active = {}
    /\ visible = {}
    /\ adjusted = [b \in Boxes |-> DefaultDirection]
    /\ rotation = [c \in Clients |-> 0]
    /\ entity_ref = [c \in Clients |-> NoEntity]
    /\ freed = [c \in Clients |-> FALSE]
    /\ updates = <<>>
    /\ requests = [k \in Kinds |-> 0]
    /\ sent = <<>>
    /\ camera = NoCamera
    /\ minConv \in {"low", "high"}
    /\ trail = <<>>
    /\ last = [op |-> "init"]
    /\ created \in {{}, Boxes}
    /\ early = [k \in Kinds |-> 0]
    /\ mesh = [b \in Boxes |-> NoMesh]
    /\ fault = FALSE
    /\ tile \in TileSizes

\* ------------------------------------------------ create_orthogonal_dir_system
\* Variant of OrthogonalDirection that keeps the camera's own vectors.
OrthogonalDirectionRaw(b, dir) ==
    [forward |-> <<dir.forward[1], 0, dir.forward[3]>>, right |-> dir.right]

\* Variant of OrthogonalDirection that turns the stored basis instead of
\* resolving the camera.
OrthogonalDirectionDrift(b, dir) ==
    [forward |-> RotQuarter(adjusted[b].forward, 1),
     right |-> RotQuarter(adjusted[b].right, 1)]

\* The direction the system writes to box b for the camera Direction dir.
OrthogonalDirection(b, dir) == ResolveBasis(dir)

\* One run with the camera reporting dir: every box with a RelativeCamera on
\* that camera gets the resolved basis.  `last` records whether the camera
\* reported the same Direction at the previous run.
\* A comparison that panics ends the run before anything is written; `fault`
\* records it.
OrthogonalDirSystem(dir) ==
    /\ IF ResolvePanics(dir) /\ (\E b \in created : HasRelativeCamera(b))
       THEN /\ fault' = TRUE
            /\ UNCHANGED adjusted
       ELSE /\ adjusted' = [b \in Boxes |->
                               IF HasRelativeCamera(b) /\ b \in created
                               THEN OrthogonalDirection(b, dir)
                               ELSE adjusted[b]]
            /\ UNCHANGED fault
    /\ camera' = dir
    /\ last' = [op |-> "orthogonal_dir", again |-> camera = dir]
    /\ UNCHANGED <<coord_pos, aabb, active, visible, rotation, entity_ref, freed, updates,
                   requests, sent, minConv, tile, created, early, mesh, trail>>

\* ------------------------------------------------------ create_movement_system
\* Variant of CombinedMovement that adds up the deltas of the eligible inputs.
CombinedMovementSum(dir, acts) ==
    IF Len(acts) = 1 THEN AdjustedMovement(dir, Movement(acts[1]))
    ELSE VAdd(AdjustedMovement(dir, Movement(acts[1])),
              AdjustedMovement(dir, Movement(acts[2])))

\* The delta of one tick: every eligible input overwrites combined_movement,
\* so it is that of the last eligible input evaluated.
CombinedMovement(dir, acts) == AdjustedMovement(dir, Movement(acts[Len(acts)]))

\* Variant of MovementCommand whose message carries the delta instead of the
\* position moved to.
MovementCommandDelta(c, pos, box, combined) ==
    LET i == FindUpdate(c)
    IN  /\ updates' = IF i > 0
                      THEN [updates EXCEPT ![i].coord_pos = VAdd(@, combined)]
                      ELSE Append(updates, UpdateBounds(c, VAdd(pos, combined), box))
        /\ sent' = Append(sent, UpdateSelectionBounds(c, combined, box))

\* Variant of MovementCommand that gives up an UpdateBounds it finds instead
\* of adding to it.
MovementCommandExpire(c, pos, box, combined) ==
    LET i == FindUpdate(c)
    IN  /\ updates' = IF i > 0 THEN SubSeq(updates, 1, i - 1) \o SubSeq(updates, i + 1, Len(updates))
                      ELSE Append(updates, UpdateBounds(c, VAdd(pos, combined), box))
        /\ sent' = Append(sent, UpdateSelectionBounds(c, VAdd(pos, combined), box))

\* Variant of MovementCommand that pushes an UpdateBounds without looking for
\* one.
MovementCommandPush(c, pos, box, combined) ==
    /\ updates' = Append(updates, UpdateBounds(c, VAdd(pos, combined), box))
    /\ sent' = Append(sent, UpdateSelectionBounds(c, VAdd(pos, combined), box))

\* Variant of MovementCommand whose message carries the live position moved
\* by the delta of the tick alone.
MovementCommandIncremental(c, pos, box, combined) ==
    LET i == FindUpdate(c)
        move_to_pos == VAdd(pos, combined)
    IN  /\ updates' = IF i > 0
                      THEN [updates EXCEPT ![i].coord_pos = VAdd(@, combined)]
                      ELSE Append(updates, UpdateBounds(c, move_to_pos, box))
        /\ sent' = Append(sent, UpdateSelectionBounds(c, move_to_pos, box))

\* The command of the movement system: the first UpdateBounds of the client
\* takes the delta, or a new one is pushed with the position moved to; the
\* message carries the pending position and the box the system read.
MovementCommand(c, pos, box, combined) ==
    LET i == FindUpdate(c)
        move_to_pos == VAdd(pos, combined)
    IN  IF i > 0
        THEN /\ updates' = [updates EXCEPT ![i].coord_pos = VAdd(@, combined)]
             /\ sent' = Append(sent,
                    UpdateSelectionBounds(c, VAdd(updates[i].coord_pos, combined), box))
        ELSE /\ updates' = Append(updates, UpdateBounds(c, move_to_pos, box))
             /\ sent' = Append(sent, UpdateSelectionBounds(c, move_to_pos, box))

\* One run with the inputs acts eligible, b being the box of the local client
\* the query yields last.
MovementSystem(acts, b) ==
    /\ LET combined == CombinedMovement(adjusted[b], acts)
       IN  /\ MovementCommand(LocalClient, coord_pos[b], aabb[b], combined)
           /\ trail' = Append(trail, [op |-> "move", delta |-> combined,
                                      from |-> coord_pos[b], mark |-> Len(sent)])
    /\ last' = [op |-> "movement", input |-> acts[Len(acts)]]
    /\ UNCHANGED <<coord_pos, aabb, active, visible, adjusted, rotation, entity_ref, freed,
                   requests, camera, minConv, tile, created, early, mesh, fault>>

\* ----------------------------------------------------- create_expansion_system
CombinedExpansion(dir, acts) == AdjustedExpansion(dir, Expansion(acts[Len(acts)]))

\* The command of the expansion system.
ExpansionCommand(c, pos, box, dir, combined) ==
    LET i == FindUpdate(c)
        h == expansion_movement_helper(combined, dir, box)
        move_to_pos == VSub(pos, h.diff)
    IN  IF i > 0
        THEN LET to == [updates[i] EXCEPT
                           !.coord_pos = VSub(@, h.diff),
                           !.aabb.dimensions = VAdd(@, combined)]
             IN  /\ updates' = [updates EXCEPT ![i] = to]
                 /\ sent' = Append(sent, UpdateSelectionBounds(c, to.coord_pos, to.aabb))
        ELSE /\ updates' = Append(updates, UpdateBounds(c, move_to_pos, h.new_aabb))
             /\ sent' = Append(sent, UpdateSelectionBounds(c, move_to_pos, h.new_aabb))

\* Variant of ExpansionBoxes without the filter on Active.
ExpansionBoxesAny == {b \in BoxesOf(LocalClient) : KindOf(b) = "Terrain"}

\* The boxes the selection box query of the expansion system yields for the
\* local client: filter(component::<TerrainToolBox>() & component::<Active>()).
ExpansionBoxes == {b \in BoxesOf(LocalClient) : KindOf(b) = "Terrain" /\ b \in active}

\* One run with the inputs acts eligible; the query yields only the local
\* client's Terrain box, and only while it is Active.
ExpansionSystem(acts) ==
    LET b == <<LocalClient, "Terrain">>
    IN  /\ b \in ExpansionBoxes
        /\ LET combined == CombinedExpansion(adjusted[b], acts)
           IN  /\ ExpansionCommand(LocalClient, coord_pos[b], aabb[b], adjusted[b], combined)
               /\ trail' = Append(trail, [op |-> "expand", delta |-> combined,
                                          from |-> coord_pos[b], mark |-> Len(sent)])
        /\ last' = [op |-> "expansion", input |-> acts[Len(acts)]]
        /\ UNCHANGED <<coord_pos, aabb, active, visible, adjusted, rotation, entity_ref, freed,
                       requests, camera, minConv, tile, created, early, mesh, fault>>

\* -------------------------------------------------- create_update_bounds_system
\* Variant of UpdatedAABB without the test for Active.
UpdatedAABBAlways(b, to) == to.aabb

\* What the command writes to the box of a selection box entity: the box of
\* the UpdateBounds when it differs and the entity is Active.
UpdatedAABB(b, to) == IF aabb[b] # to.aabb /\ b \in active THEN to.aabb ELSE aabb[b]

\* Variant of UpdatedCoordPos with the test for Active the box is under.
UpdatedCoordPosActive(b, to) == IF b \in active THEN to.coord_pos ELSE coord_pos[b]

\* What the command writes to the CoordPos of a selection box entity: the
\* origin of the UpdateBounds, Active or not.
UpdatedCoordPos(b, to) == to.coord_pos

\* Variant of UpdateBoundsSystem that leaves the UpdateBounds in the world.
UpdateBoundsSystemKeep ==
    /\ \E b \in created : FindUpdate(ClientOf(b)) > 0
    /\ coord_pos' = [b \in Boxes |->
                        IF b \in created /\ FindUpdate(ClientOf(b)) > 0
                        THEN updates[FindUpdate(ClientOf(b))].coord_pos
                        ELSE coord_pos[b]]
    /\ aabb' = [b \in Boxes |->
                   IF b \in created /\ FindUpdate(ClientOf(b)) > 0
                   THEN UpdatedAABB(b, updates[FindUpdate(ClientOf(b))])
                   ELSE aabb[b]]
    /\ last' = [op |-> "update_bounds"]
    /\ UNCHANGED <<updates, trail, active, visible, adjusted, rotation, entity_ref, freed,
                   requests, sent, camera, minConv, tile, created, early, mesh, fault>>

\* One run: every selection box takes the first UpdateBounds of its client,
\* which is then removed.
UpdateBoundsSystem ==
    LET taken == {FindUpdate(ClientOf(b)) : b \in created} \ {0}
    IN  /\ taken # {}
        /\ coord_pos' = [b \in Boxes |->
                            IF b \in created /\ FindUpdate(ClientOf(b)) > 0
                            THEN UpdatedCoordPos(b, updates[FindUpdate(ClientOf(b))])
                            ELSE coord_pos[b]]
        /\ aabb' = [b \in Boxes |->
                       IF b \in created /\ FindUpdate(ClientOf(b)) > 0
                       THEN UpdatedAABB(b, updates[FindUpdate(ClientOf(b))])
                       ELSE aabb[b]]
        /\ updates' = [k \in 1..(Len(updates) - Cardinality(taken)) |->
                          updates[CHOOSE i \in (1..Len(updates)) \ taken :
                                     Cardinality({j \in (1..i) \ taken : TRUE}) = k]]
        /\ trail' = IF FindUpdate(LocalClient) \in taken THEN <<>> ELSE trail
        /\ last' = [op |-> "update_bounds"]
        /\ UNCHANGED <<active, visible, adjusted, rotation, entity_ref, freed, requests, sent,
                       camera, minConv, tile, created, early, mesh, fault>>

\* The replicated channel delivers the bounds of a remote client: the code
\* that receives UpdateSelectionBounds belongs to another file of the
\* repository; it leaves an UpdateBounds with the ClientID of the sender in
\* the world, which the update-bounds system applies.  One is outstanding per
\* remote client.
ReceivedPositions == {<<5, 0, 0>>}
ReceivedBoxes == {NewAABB(Zeros, <<2, 1, 1>>)}
ReceiveUpdateBounds(c, pos, box) ==
    /\ c # LocalClient
    /\ FindUpdate(c) = 0
    /\ updates' = Append(updates, UpdateBounds(c, pos, box))
    /\ last' = [op |-> "receive", client |-> c]
    /\ UNCHANGED <<coord_pos, aabb, active, visible, adjusted, rotation, entity_ref, freed,
                   requests, sent, camera, minConv, tile, trail, created, early, mesh,
                   fault>>

\* ---------------------------------------------------------------- create_system
\* One run: the outline of every box whose SelectionBox may have changed is
\* rebuilt.  The change filter is coarse, so a run may rebuild any box; what
\* it builds depends on the box alone.
\* Variant of MeshClear that keeps what the buffers held.
MeshClearKeep(buf) == buf

\* mesh_data.verts.clear() and the three clears after it.
MeshClear(buf) == [buf EXCEPT !.verts = 0, !.normals = 0, !.uvs = 0, !.indices = <<>>]

\* The buffers after the loop over the three face pairs, from the buffers
\* `buf` the loop starts with and `offset` = 0.  Each pass builds 8 points,
\* pushes them, pushes their 8 rotated copies (which it also appends to pts),
\* pushes one normal per point and then the mirror image of all 16; its
\* indices are two triangles for each of 8 quads of 4 vertices from `offset`
\* on, and `offset` grows by the vertices of the pass.
Outline(buf) ==
    LET pts_len == 8
        pts == pts_len + pts_len
        verts == pts_len + pts_len + pts
        normals == pts + pts
        uvs == pts_len + pts_len + pts
        quad == <<2, 1, 0, 2, 3, 1>>
        indices(offset) ==
            [n \in 1..48 |-> offset + 4 * ((n - 1) \div 6) + quad[((n - 1) % 6) + 1]]
        pass(st) ==
            [offset |-> st.offset + verts,
             buf |-> [st.buf EXCEPT !.verts = @ + verts, !.normals = @ + normals,
                                    !.uvs = @ + uvs,
                                    !.indices = @ \o indices(st.offset)]]
    IN  pass(pass(pass([offset |-> 0, buf |-> buf]))).buf

MeshSystem ==
    /\ mesh' = [b \in Boxes |->
                   IF b \in created
                   THEN [Outline(MeshClear(mesh[b])) EXCEPT !.built = TRUE,
                                                            !.margin = Margin(aabb[b])]
                   ELSE mesh[b]]
    /\ last' = [op |-> "mesh"]
    /\ UNCHANGED <<coord_pos, aabb, active, visible, adjusted, rotation, entity_ref, freed,
                   updates, requests, sent, camera, minConv, tile, trail, created,
                   early, fault>>

\* ------------------------------------------------------ set_active_selection_box
\* Variant of ActiveAfter that leaves the box of the other kind as it is.
ActiveAfterKeep(kind, c) ==
    active \cup {b \in BoxesOf(c) \cap created : KindOf(b) = kind}

\* Variant of ActiveAfter that takes the mark off a box that has it.
ActiveAfterToggle(kind, c) ==
    (active \ BoxesOf(c))
        \cup {b \in BoxesOf(c) \cap created : KindOf(b) = kind /\ b \notin active}

\* The Active boxes after set_active_selection_box::<kind>(world, c).
ActiveAfter(kind, c) ==
    (active \ {b \in BoxesOf(c) : KindOf(b) # kind})
        \cup {b \in BoxesOf(c) \cap created : KindOf(b) = kind}

\* Variant of VisibleAfter that hides nothing.
VisibleAfterShown(kind, c) ==
    visible \cup {b \in BoxesOf(c) \cap created : b \notin active /\ KindOf(b) = kind}

\* The visible boxes after it: the boxes that lose Active are hidden, the
\* boxes that gain it are shown.
VisibleAfter(kind, c) ==
    (visible \ {b \in BoxesOf(c) : b \in active /\ KindOf(b) # kind})
        \cup {b \in BoxesOf(c) \cap created : b \notin active /\ KindOf(b) = kind}

\* initialize_selection_box, called when a client joins the session, once
\* for each tool kind.  The callers are not in this file: the local client's
\* boxes are taken to be created first (the activation systems rely on it:
\* they take any box in the world as the sign that the session is ready),
\* and the two boxes of a client together.
InitializeSelectionBoxes(c) ==
    /\ BoxesOf(c) \cap created = {}
    /\ c = LocalClient \/ BoxesOf(LocalClient) \subseteq created
    /\ created' = created \cup BoxesOf(c)
    /\ last' = [op |-> "initialize", client |-> c]
    /\ UNCHANGED <<coord_pos, aabb, active, visible, adjusted, rotation, entity_ref, freed,
                   updates, requests, sent, camera, minConv, tile, trail, early, mesh,
                   fault>>

\* set_active_selection_box called for a remote client, when its activation
\* notice arrives (the receiving side is not in this file).
RemoteActivate(kind, c) ==
    /\ c # LocalClient
    /\ BoxesOf(c) \cap created # {}
    /\ active' = ActiveAfter(kind, c)
    /\ visible' = VisibleAfter(kind, c)
    /\ last' = [op |-> "set_active", kind |-> kind, client |-> c]
    /\ UNCHANGED <<coord_pos, aabb, adjusted, rotation, entity_ref, freed, updates, requests,
                   sent, camera, minConv, tile, trail, created, early, mesh, fault>>

\* The UI pushes an ActivateTerrainToolBox / ActivateActorToolBox entity.
RequestActivate(kind) ==
    /\ requests' = [requests EXCEPT ![kind] = @ + 1]
    /\ early' = [early EXCEPT ![kind] = IF created = {} THEN @ + 1 ELSE @]
    /\ last' = [op |-> "request", kind |-> kind]
    /\ UNCHANGED <<coord_pos, aabb, active, visible, adjusted, rotation, entity_ref, freed,
                   updates, sent, camera, minConv, tile, created, mesh, fault, trail>>

\* Variant of ToolActivate that removes the requests it finds while the world
\* holds no selection box.
ToolActivateDrop(kind) ==
    /\ requests[kind] > 0
    /\ IF created = {}
       THEN /\ UNCHANGED <<active, visible, sent>>
            /\ requests' = [requests EXCEPT ![kind] = 0]
            /\ early' = [early EXCEPT ![kind] = 0]
            /\ last' = [op |-> "activate", kind |-> kind, served |-> 0, stale |-> FALSE]
       ELSE /\ active' = {b \in active : ClientOf(b) # LocalClient}
                             \cup {<<LocalClient, kind>>}
            /\ visible' = {b \in visible : ClientOf(b) # LocalClient}
                              \cup {<<LocalClient, kind>>}
            /\ sent' = sent \o [i \in 1..requests[kind] |->
                                   [type |-> IF kind = "Terrain"
                                             THEN "ActivateTerrainToolBox"
                                             ELSE "ActivateActorToolBox",
                                    client_id |-> LocalClient]]
            /\ requests' = [requests EXCEPT ![kind] = 0]
            /\ early' = [early EXCEPT ![kind] = 0]
            /\ last' = [op |-> "activate", kind |-> kind, served |-> requests[kind],
                        stale |-> early[kind] > 0]
    /\ UNCHANGED <<coord_pos, aabb, adjusted, rotation, entity_ref, freed, updates, camera,
                   minConv, tile, created, mesh, fault, trail>>

\* Variant of ToolActivate that leaves the requests it served in the world.
ToolActivateKeep(kind) ==
    /\ requests[kind] > 0
    /\ IF created = {}
       THEN /\ UNCHANGED <<active, visible, sent>>
            /\ last' = [op |-> "activate", kind |-> kind, served |-> 0, stale |-> FALSE]
       ELSE /\ active' = {b \in active : ClientOf(b) # LocalClient}
                             \cup {<<LocalClient, kind>>}
            /\ visible' = {b \in visible : ClientOf(b) # LocalClient}
                              \cup {<<LocalClient, kind>>}
            /\ sent' = sent \o [i \in 1..requests[kind] |->
                                   [type |-> IF kind = "Terrain"
                                             THEN "ActivateTerrainToolBox"
                                             ELSE "ActivateActorToolBox",
                                    client_id |-> LocalClient]]
            /\ last' = [op |-> "activate", kind |-> kind, served |-> requests[kind],
                        stale |-> early[kind] > 0]
    /\ UNCHANGED <<coord_pos, aabb, adjusted, rotation, entity_ref, freed, updates, camera,
                   minConv, tile, created, mesh, fault, trail, requests, early>>

\* create_terrain_tool_activate_system / create_actor_tool_activate_system: one
\* run with requests of the kind in the world.  While the world holds no
\* selection box the system returns at once and the requests stay; otherwise
\* each one is served and removed.  `last` records how many were served and
\* whether one of them had been pushed while no box existed.
ToolActivate(kind) ==
    /\ requests[kind] > 0
    /\ IF created = {}
       THEN /\ UNCHANGED <<active, visible, sent, requests, early>>
            /\ last' = [op |-> "activate", kind |-> kind, served |-> 0, stale |-> FALSE]
       ELSE /\ active' = ActiveAfter(kind, LocalClient)
            /\ visible' = VisibleAfter(kind, LocalClient)
            /\ sent' = sent \o [i \in 1..requests[kind] |->
                                   ActivateToolBox(kind, LocalClient)]
            /\ requests' = [requests EXCEPT ![kind] = 0]
            /\ early' = [early EXCEPT ![kind] = 0]
            /\ last' = [op |-> "activate", kind |-> kind, served |-> requests[kind],
                        stale |-> early[kind] > 0]
    /\ UNCHANGED <<coord_pos, aabb, adjusted, rotation, entity_ref, freed, updates, camera,
                   minConv, tile, created, mesh, fault, trail>>

TerrainToolActivateSystem == ToolActivate("Terrain")
ActorToolActivateSystem == ToolActivate("Actor")


\* ------------------------------------------------------ create_rotation_system
\* Variant of ToolRotation with the two turns exchanged.
ToolRotationMirrored(action) ==
    IF action = "rotate_selection_left" THEN -1
    ELSE IF action = "rotate_selection_right" THEN 1
    ELSE 0

\* The tool rotation of a rotate input, in quarter turns about +Y:
\* FRAC_PI_2 for rotate_selection_left, -FRAC_PI_2 for rotate_selection_right.
ToolRotation(action) ==
    IF action = "rotate_selection_left" THEN 1
    ELSE IF action = "rotate_selection_right" THEN -1
    ELSE 0

\* Variant of RotationAfter that does not accumulate.
RotationAfterLatest(value, k) == k % 4

\* actor_tool_rotation, on the selection box entity: the rotation composed
\* into SelectionBoxRotation and the box rotated.  Both are written before the
\* EntityRef is looked up.
RotationAfter(value, k) == (value + k) % 4

RECURSIVE RotationFold(_, _)
RotationFold(value, acts) ==
    IF acts = <<>> THEN value
    ELSE RotationFold(RotationAfter(value, ToolRotation(Head(acts))), Tail(acts))

RECURSIVE RotateFold(_, _)
RotateFold(box, acts) ==
    IF acts = <<>> THEN box
    ELSE RotateFold(RotateAABB(box, ToolRotation(Head(acts))), Tail(acts))

\* One run with the inputs acts eligible: every one of them rotates the local
\* client's Active Actor box and broadcasts its rotation.
RotationSystem(acts) ==
    LET b == <<LocalClient, "Actor">>
    IN  /\ b \in active
        /\ rotation' = [rotation EXCEPT ![LocalClient] = RotationFold(@, acts)]
        /\ aabb' = [aabb EXCEPT ![b] = RotateFold(@, acts)]
        /\ sent' = sent \o [i \in 1..Len(acts) |->
                               ActorToolRotation(LocalClient, ToolRotation(acts[i]))]
        /\ last' = [op |-> "rotation", input |-> acts[Len(acts)]]
        /\ UNCHANGED <<coord_pos, active, visible, adjusted, entity_ref, freed, updates,
                       requests, camera, minConv, tile, created, early, mesh, fault, trail>>

\* --------------------------------------- create_actor_selection_chooser_system
\* The actor palette: the ids the registry (ENTITY_REFS) holds, with the
\* bounds of each prototype.
ActorBounds(id) == NewAABB(Zeros, <<2, 1, 3>>)
KnownActors == {7}
\* The values the ActorPaletteSelection resource may hold: ids of the registry
\* and an id it does not contain.
PaletteSelections == KnownActors \cup {8}

\* Bounds::get_scaled_and_rotated_aabb(rotation)
ScaledAndRotated(bounds, value) == RotateAABB(bounds, value)

\* One run with a MakeActorSelectionChosen entity in the world and the
\* palette selection id: update_chosen_actor on the local client's Actor box,
\* then the broadcast.  update_chosen_actor first frees the node of the
\* entity the box's EntityRef names, if there is one; then, when the registry
\* holds the id, it clones the prototype, points EntityRef at the clone and
\* sizes the box to the clone's bounds; otherwise add_component is never
\* reached and the box keeps the EntityRef it had.
ActorSelectionChooserSystem(id) ==
    LET b == <<LocalClient, "Actor">>
    IN  /\ id \in PaletteSelections
        /\ entity_ref' = [entity_ref EXCEPT ![LocalClient] =
                              IF id \in KnownActors THEN id ELSE entity_ref[LocalClient]]
        /\ freed' = [freed EXCEPT ![LocalClient] =
                         id \notin KnownActors /\ entity_ref[LocalClient] # NoEntity]
        /\ aabb' = IF id \in KnownActors
                   THEN [aabb EXCEPT ![b] = ScaledAndRotated(ActorBounds(id),
                                                             rotation[LocalClient])]
                   ELSE aabb
        /\ sent' = Append(sent, ActorToolSelection(LocalClient, id))
        /\ last' = [op |-> "choose", id |-> id]
        /\ UNCHANGED <<coord_pos, active, visible, adjusted, rotation, updates, requests,
                       camera, minConv, tile, created, early, mesh, fault, trail>>


\* ------------------------------------------------------- create_tile_tool_system
TileActions == {"insertion", "removal"}
\* The values of the PaletteSelection resource.
TileSelections == {0, 1}

\* Variant of MapChangeCommand that does not ask the validator.
MapChangeCommandUnchecked(can_change, change) == sent' = Append(sent, change)

\* The command of the tile tool: the change is pushed when map.can_change
\* answers Ok.  The Map belongs to another file; its answer is an input.
MapChangeCommand(can_change, change) ==
    IF can_change THEN sent' = Append(sent, change) ELSE UNCHANGED sent

\* One run with `action` just pressed (or held while the box moved), the
\* palette holding tile_selection and the validator answering can_change.
\* The query yields the local client's Terrain box while it is Active.
TileToolSystem(action, tile_selection, can_change) ==
    LET b == <<LocalClient, "Terrain">>
        box == NewAABB(coord_pos[b], aabb[b].dimensions)
    IN  /\ b \in active
        /\ b \in created
        /\ MapChangeCommand(can_change,
                            IF action = "insertion"
                            THEN MapInsertion(LocalClient, box, tile_selection)
                            ELSE MapRemoval(LocalClient, box))
        /\ last' = [op |-> "tile_tool", action |-> action, tile |-> tile_selection,
                    accepted |-> can_change]
        /\ UNCHANGED <<coord_pos, aabb, active, visible, adjusted, rotation, entity_ref, freed,
                       updates, requests, camera, minConv, tile, trail, created, early,
                       mesh, fault>>

\* ------------------------------------------------------ create_actor_tool_system
\* The ActorIDs of the actors placed in the level.
PlacedActors == {21, 22}

\* The actor tool reading the Actor box whether or not it is Active.
ActorToolSystemAny(action, serializes, found) ==
    LET b == <<LocalClient, "Actor">>
    IN  /\ b \in created
        /\ entity_ref[LocalClient] # NoEntity
        /\ sent' = IF action = "insertion"
                   THEN IF serializes
                        THEN Append(sent, ActorInsertion(LocalClient, entity_ref[LocalClient],
                                                         coord_pos[b]))
                        ELSE sent
                   ELSE sent \o [i \in 1..Cardinality(found) |->
                                    ActorRemoval(LocalClient, CHOOSE id \in found : TRUE)]
        /\ last' = [op |-> "actor_tool", action |-> action]
        /\ UNCHANGED <<coord_pos, aabb, active, visible, adjusted, rotation, entity_ref, freed,
                       updates, requests, camera, minConv, tile, trail, created, early,
                       mesh, fault>>

\* One run with `action` just pressed.  The query yields the local client's
\* Actor box while it is Active and has an EntityRef.  An insertion pushes
\* one ActorChange when the clone serializes; a removal pushes one per actor
\* that select_actors_from_range finds in the box, here `found`, in the
\* order of their ids.  The serializer and the actors of the level belong to
\* other files; their answers are inputs.
ActorToolSystem(action, serializes, found) ==
    LET b == <<LocalClient, "Actor">>
        ids == [i \in 1..Cardinality(found) |->
                   CHOOSE id \in found : Cardinality({x \in found : x < id}) = i - 1]
    IN  /\ b \in active
        /\ b \in created
        /\ entity_ref[LocalClient] # NoEntity
        /\ sent' = IF action = "insertion"
                   THEN IF serializes
                        THEN Append(sent, ActorInsertion(LocalClient, entity_ref[LocalClient],
                                                         coord_pos[b]))
                        ELSE sent
                   ELSE sent \o [i \in 1..Len(ids) |-> ActorRemoval(LocalClient, ids[i])]
        /\ last' = [op |-> "actor_tool", action |-> action]
        /\ UNCHANGED <<coord_pos, aabb, active, visible, adjusted, rotation, entity_ref, freed,
                       updates, requests, camera, minConv, tile, trail, created, early,
                       mesh, fault>>

\* --------------------------------------------------------------- specifications
MoveInputs == Eligible(MoveActions)
ExpandInputs == Eligible(ExpandActions)
RotateInputs == Eligible(RotateActions)
\* The ticks with two eligible inputs, and some of them: along the same axis
\* and along two.
TwoMoveInputs == {acts \in MoveInputs : Len(acts) = 2}
TwoExpandInputs == {acts \in ExpandInputs : Len(acts) = 2}
PairedMoveInputs ==
    {<<"move_forward", "move_left">>, <<"move_left", "move_back">>,
     <<"move_down", "move_up">>}
PairedExpandInputs ==
    {<<"expand_selection_right", "expand_selection_left">>,
     <<"expand_selection_forward", "expand_selection_up">>,
     <<"expand_selection_up", "expand_selection_back">>}
\* One input only.
ForwardInputs == {<<"move_forward">>}
RightTurnInputs == {<<"rotate_selection_right">>}
\* One input at a time, on the X axis only.
ExpandXInputs == {<<"expand_selection_left">>, <<"expand_selection_right">>}

Resolve(cameras) == \E dir \in cameras : OrthogonalDirSystem(dir)
MoveBy(inputs, max) ==
    /\ Len(sent) < max
    /\ \E acts \in inputs, b \in BoxesOf(LocalClient) \cap created :
           MovementSystem(acts, b)
Move(max) == MoveBy(MoveInputs, max)
Expand(inputs, max) ==
    /\ Len(sent) < max
    /\ \E acts \in inputs : ExpansionSystem(acts)
Request(kinds) ==
    /\ \A k \in Kinds : requests[k] = 0
    /\ \E kind \in kinds : RequestActivate(kind)
ActivateTerrain(max) ==
    /\ Len(sent) + requests["Terrain"] <= max
    /\ TerrainToolActivateSystem
ActivateActor(max) ==
    /\ Len(sent) + requests["Actor"] <= max
    /\ ActorToolActivateSystem
RotateBy(inputs, max) ==
    \E acts \in inputs :
        /\ Len(sent) + Len(acts) <= max
        /\ RotationSystem(acts)
Rotate(max) == RotateBy(RotateInputs, max)
Choose(max) ==
    /\ Len(sent) < max
    /\ \E id \in KnownActors : ActorSelectionChooserSystem(id)

Initialize == \E c \in Clients : InitializeSelectionBoxes(c)
TileTool(max) ==
    \E action \in TileActions, tile_selection \in TileSelections, can_change \in BOOLEAN :
        /\ can_change => Len(sent) < max
        /\ TileToolSystem(action, tile_selection, can_change)
Receive ==
    \E c \in Clients, pos \in ReceivedPositions, box \in ReceivedBoxes :
        ReceiveUpdateBounds(c, pos, box)
ActivateRemote == \E kind \in Kinds, c \in Clients : RemoteActivate(kind, c)

\* The specifications whose systems never read the extents of a box start
\* from one of the two initial states.
InitLow == Init /\ created = Boxes /\ minConv = "low" /\ tile = UnitTile
\* The specifications whose systems never turn grid coordinates into world
\* coordinates start with one size of the cell.
InitUnit == Init /\ created = Boxes /\ tile = UnitTile
\* The session before it is ready: no selection box exists.
InitEmpty == Init /\ created = {} /\ minConv = "low" /\ tile = UnitTile

\* Every system of the file, in any order.
Next ==
    \/ Resolve(MainCameras)
    \/ Move(MaxSent)
    \/ Expand(ExpandInputs, MaxSent)
    \/ UpdateBoundsSystem
    \/ Request(Kinds)
    \/ ActivateTerrain(MaxSent)
    \/ ActivateActor(MaxSent)
    \/ Rotate(MaxSent)
    \/ Choose(MaxSent)

Spec == Init /\ [][Next]_vars

\* The resolver under every camera, with the movement that reads its basis.
NextAxis ==
    \/ Resolve(AllCameras)
    \/ Move(MaxAxisSent)
    \/ UpdateBoundsSystem

SpecAxis == InitLow /\ [][NextAxis]_vars

\* Movement and its reconciliation.
NextMove ==
    \/ Resolve(MoveCameras)
    \/ Move(MaxSent)
    \/ UpdateBoundsSystem

SpecMove == InitLow /\ [][NextMove]_vars

\* Expansion of the Terrain box and its reconciliation.
NextExpand ==
    \/ Resolve(ExpandCameras)
    \/ Request(Kinds)
    \/ ActivateTerrain(MaxSent)
    \/ ActivateActor(MaxSent)
    \/ Expand(ExpandInputs, MaxSent)
    \/ UpdateBoundsSystem

SpecExpand == InitUnit /\ [][NextExpand]_vars

\* Expansion along X alone, deep enough to fold several into one
\* UpdateBounds and reconcile them.
NextExpandX ==
    \/ Request({"Terrain"})
    \/ ActivateTerrain(MaxDeep)
    \/ Expand(ExpandXInputs, MaxDeep)
    \/ UpdateBoundsSystem

SpecExpandX == InitUnit /\ [][NextExpandX]_vars

\* The Actor box: palette choice, activation, rotation, movement.
NextRotate ==
    \/ Move(MaxSent)
    \/ Request(Kinds)
    \/ ActivateTerrain(MaxSent)
    \/ ActivateActor(MaxSent)
    \/ Choose(MaxSent)
    \/ Rotate(MaxSent)
    \/ UpdateBoundsSystem

SpecRotate == InitLow /\ [][NextRotate]_vars

\* The outline of a box that expansion takes through widths of every sign.
NextMesh ==
    \/ Request({"Terrain"})
    \/ ActivateTerrain(MaxDeep)
    \/ Expand(ExpandXInputs, MaxDeep)
    \/ UpdateBoundsSystem
    \/ MeshSystem

\* The margin reads the dimensions of a box alone, which do not depend on the
\* side get_min rounds to.
InitMesh == Init /\ created = Boxes /\ minConv = "low"
SpecMesh == InitMesh /\ [][NextMesh]_vars

\* The session from before it is ready: the boxes are created, the tools are
\* activated by the local and the remote client, and used.
NextActivate ==
    \/ Initialize
    \/ Request(Kinds)
    \/ ActivateTerrain(MaxSent)
    \/ ActivateActor(MaxSent)
    \/ ActivateRemote
    \/ MoveBy(ForwardInputs, MaxSent)
    \/ Expand(ExpandXInputs, MaxSent)
    \/ RotateBy(RightTurnInputs, MaxSent)
    \/ UpdateBoundsSystem

SpecActivate == InitEmpty /\ [][NextActivate]_vars

\* Movement and expansion in ticks where two inputs of the system are
\* eligible, and their reconciliation.
NextLastInput ==
    \/ Request({"Terrain"})
    \/ ActivateTerrain(MaxSent)
    \/ MoveBy(PairedMoveInputs, MaxSent)
    \/ Expand(PairedExpandInputs, MaxSent)
    \/ UpdateBoundsSystem

SpecLastInput == InitLow /\ [][NextLastInput]_vars

\* Two clients: the local one moves and expands, the remote one is activated
\* and has its bounds delivered; both are reconciled.
NextIsolation ==
    \/ Request({"Terrain"})
    \/ ActivateTerrain(MaxSent)
    \/ ActivateRemote
    \/ MoveBy(ForwardInputs, MaxSent)
    \/ Expand(ExpandXInputs, MaxSent)
    \/ Receive
    \/ UpdateBoundsSystem

SpecIsolation == InitLow /\ [][NextIsolation]_vars

\* The tile tool on a Terrain box that is activated, moved, expanded and
\* reconciled, and deactivated by the Actor tool.
NextTile ==
    \/ Request(Kinds)
    \/ ActivateTerrain(MaxSent)
    \/ ActivateActor(MaxSent)
    \/ MoveBy(ForwardInputs, MaxSent)
    \/ Expand(ExpandXInputs, MaxSent)
    \/ UpdateBoundsSystem
    \/ TileTool(MaxSent)

SpecTile == InitLow /\ [][NextTile]_vars

\* The resolver under cameras with undefined components, as long as the
\* process runs.
NextFault ==
    \/ ~fault /\ Resolve(NaNCameras \cup MoveCameras)
    \/ ~fault /\ Move(MaxAxisSent)
    \/ ~fault /\ UpdateBoundsSystem

SpecFault == InitLow /\ [][NextFault]_vars

\* The messages one behaviour of the specifications of the tools may send.
MaxToolSent == 4

\* Every single movement and expansion input under each basis the resolver
\* writes for a camera along a grid axis; the deltas fold into one
\* UpdateBounds.
NextDelta ==
    \/ Resolve(MainCameras)
    \/ Request({"Terrain"})
    \/ ActivateTerrain(MaxAxisSent + 1)
    \/ MoveBy({<<a>> : a \in MoveActions}, MaxAxisSent + 1)
    \/ Expand({<<a>> : a \in ExpandActions}, MaxAxisSent + 1)

SpecDelta == InitLow /\ [][NextDelta]_vars

\* Movement while the Actor box, sized to a chosen actor and turned, is the
\* Active one.
NextActorMove ==
    \/ Request({"Actor"})
    \/ ActivateActor(MaxToolSent)
    \/ Choose(MaxToolSent)
    \/ RotateBy(RightTurnInputs, MaxToolSent)
    \/ MoveBy(ForwardInputs, MaxToolSent)
    \/ UpdateBoundsSystem

SpecActorMove == InitLow /\ [][NextActorMove]_vars

\* The two tools under the same presses: either box is activated, an actor
\* is chosen, and insertion and removal are pressed.
NextTools ==
    \/ Request(Kinds)
    \/ ActivateTerrain(MaxToolSent)
    \/ ActivateActor(MaxToolSent)
    \/ \E id \in PaletteSelections :
           Len(sent) < MaxToolSent /\ ActorSelectionChooserSystem(id)
    \/ TileTool(MaxToolSent)
    \/ \E action \in TileActions, serializes \in BOOLEAN, found \in SUBSET PlacedActors :
           /\ Len(sent) + Cardinality(found) <= MaxToolSent
           /\ ActorToolSystem(action, serializes, found)

SpecTools == InitLow /\ [][NextTools]_vars

\* ------------------------------------------------------------------ properties
LocalTerrain == <<LocalClient, "Terrain">>
LocalActor == <<LocalClient, "Actor">>

\* The UpdateBounds entities of the local client.
LocalUpdates == {i \in 1..Len(updates) : updates[i].id = LocalClient}
\* The first of them (the one every system finds).
Pending == updates[FindUpdate(LocalClient)]

\* The UpdateSelectionBounds messages pushed after the first `mark` messages.
BoundsSentSince(mark) ==
    SelectSeq(SubSeq(sent, mark + 1, Len(sent)),
              LAMBDA m : m.type = "UpdateSelectionBounds")

\* The local client was Idle and has since got n deltas of the kind op.
Since(op, n) ==
    /\ Len(trail) = n
    /\ \A k \in 1..n : trail[k].op = op

\* C1. Coalescing: when two movement deltas d1, d2 have been applied from Idle
\* with the live origin p and nothing was reconciled in between, the client
\* has exactly one UpdateBounds, its origin is p + d1 + d2, and exactly two
\* UpdateSelectionBounds have been pushed since, with the origins p + d1 and
\* p + d1 + d2.
C1_Coalescing ==
    Since("move", 2) =>
        LET p == trail[1].from
            d1 == trail[1].delta
            d2 == trail[2].delta
            msgs == BoundsSentSince(trail[1].mark)
        IN  /\ Cardinality(LocalUpdates) = 1
            /\ Pending.coord_pos = VAdd(VAdd(p, d1), d2)
            /\ Len(msgs) = 2
            /\ \A k \in 1..Len(msgs) : msgs[k].client_id = LocalClient
            /\ msgs[1].coord_pos = VAdd(p, d1)
            /\ msgs[2].coord_pos = VAdd(VAdd(p, d1), d2)

\* Two different deltas applied from an origin other than the initial one.
C1_Witness ==
    /\ Since("move", 2)
    /\ trail[1].from # Zeros
    /\ trail[1].delta # trail[2].delta
    /\ Pending.coord_pos = VAdd(VAdd(trail[1].from, trail[1].delta), trail[2].delta)

\* C2. Reconciliation: a run of the update-bounds system that applies an
\* UpdateBounds of client c writes its origin to every box of c, leaves the
\* dimensions of a box of c without Active as they are, and writes its
\* dimensions to a box of c with Active.
C2_Reconciliation ==
    [][last'.op = "update_bounds" =>
          \A b \in Boxes :
              FindUpdate(ClientOf(b)) > 0 =>
                  LET to == updates[FindUpdate(ClientOf(b))]
                  IN  /\ coord_pos'[b] = to.coord_pos
                      /\ b \notin active => aabb'[b].dimensions = aabb[b].dimensions
                      /\ b \in active => aabb'[b].dimensions = to.aabb.dimensions]_vars

\* A reconciliation has given the Active Terrain box new dimensions and a new
\* origin, and the Actor box of the same client the origin alone.
C2_Witness ==
    /\ last.op = "update_bounds"
    /\ LocalTerrain \in active
    /\ aabb[LocalTerrain].dimensions # Ones
    /\ aabb[LocalActor].dimensions = Ones
    /\ coord_pos[LocalTerrain] # Zeros
    /\ coord_pos[LocalActor] = coord_pos[LocalTerrain]

Target ==
    IF FindUpdate(LocalClient) > 0
    THEN [coord_pos |-> Pending.coord_pos, aabb |-> Pending.aabb]
    ELSE [coord_pos |-> coord_pos[LocalTerrain], aabb |-> aabb[LocalTerrain]]

\* The width an expansion from Idle by e leaves on an axis of live width d.
C5_Expected(d, e) == IF d + e = 0 THEN 2 * e ELSE d + e

AnchorSide(t, dir, axis) ==
    LET negative == t.aabb.dimensions[axis] < 0
        swapped == axis # 2 /\ dir.right[axis] < 0
    IN  IF negative # swapped THEN "max" ELSE "min"
Corner(t, axis, side) ==
    IF side = "max" THEN WorldMax(t.coord_pos, t.aabb)[axis]
    ELSE WorldMin(t.coord_pos, t.aabb)[axis]

\* A run of the expansion system.
ExpansionStep ==
    /\ Len(trail') = Len(trail) + 1
    /\ trail'[Len(trail')].op = "expand"

\* C6. Anchor invariant: every expansion of the Active Terrain box leaves the
\* world position of the corner opposite the expansion where it was, the
\* returned translation applied.
C6_Anchor ==
    [][ExpansionStep =>
          \A axis \in 1..3 :
              LET side == AnchorSide(Target', adjusted[LocalTerrain], axis)
              IN  Corner(Target', axis, side) = Corner(Target, axis, side)]_vars

\* C7. Rotation: one rotate-right on the Active Actor box composes a quarter
\* turn of -90 degrees about +Y into the SelectionBoxRotation, broadcasts it,
\* and exchanges the X and Z dimensions of the box: (2,1,3) becomes (3,1,2).
C7_RotateRight ==
    [][(/\ last'.op = "rotation"
        /\ last'.input = "rotate_selection_right"
        /\ Len(sent') = Len(sent) + 1)
       => /\ LocalActor \in active
          /\ rotation'[LocalClient] = (rotation[LocalClient] - 1) % 4
          /\ sent' = Append(sent, ActorToolRotation(LocalClient, -1))
          /\ aabb'[LocalActor].dimensions =
                 <<aabb[LocalActor].dimensions[3], aabb[LocalActor].dimensions[2],
                   aabb[LocalActor].dimensions[1]>>
          /\ aabb[LocalActor].dimensions = <<2, 1, 3>>
                 => aabb'[LocalActor].dimensions = <<3, 1, 2>>]_vars

\* The chosen actor's box of (2,1,3) has been turned once to the right.
C7_Witness ==
    /\ last = [op |-> "rotation", input |-> "rotate_selection_right"]
    /\ entity_ref[LocalClient] \in KnownActors
    /\ Cardinality({k \in 1..Len(sent) : sent[k].type = "ActorToolRotation"}) = 1
    /\ rotation[LocalClient] = 3
    /\ aabb[LocalActor].dimensions = <<3, 1, 2>>

\* C8. AxisResolver cardinality: whatever the camera reports, the forward the
\* resolver writes is one of +X, -X, +Z, -Z.
C8_Cardinal ==
    camera # NoCamera =>
        \A b \in BoxesOf(LocalClient) : adjusted[b].forward \in Cardinals

\* The resolver has run on an oblique camera.
C8_Witness ==
    /\ last.op = "orthogonal_dir"
    /\ camera.forward = <<-940, 0, 342>>
    /\ adjusted[LocalTerrain].forward \in Cardinals

\* C9. Basis invariant: the cached basis of every box has right = forward
\* turned -90 degrees about +Y, from creation on.
C9_Basis ==
    \A b \in Boxes : adjusted[b].right = RotQuarter(adjusted[b].forward, -1)

SmallestWorldDimension(box) ==
    LET d == map_coords_to_world(box.dimensions)
    IN  Min(Abs(d[1]), Min(Abs(d[2]), Abs(d[3])))

\* C11. Mesh margin clamp: for every box, negative and zero widths included,
\* the margin a run of the outline generator uses is the smaller of 0.9 and
\* half the smallest absolute world-space dimension, so it exceeds neither.
C11_Margin ==
    [][last'.op = "mesh" =>
          \A b \in created :
              LET d == SmallestWorldDimension(aabb[b])
                  m == mesh'[b].margin
              IN  /\ mesh'[b].built
                  /\ m = (IF 2 * MaxMargin < d THEN MaxMargin ELSE d \div 2)
                  /\ m <= MaxMargin
                  /\ 2 * m <= d
                  /\ m >= 0]_vars

\* The outline has been built for a box of negative width, with the margin
\* at its cap.
C11_Witness ==
    /\ last.op = "mesh"
    /\ aabb[LocalTerrain].dimensions[1] < 0
    /\ mesh[LocalTerrain].built
    /\ mesh[LocalTerrain].margin = MaxMargin

\* The boxes of a client that carry the Active mark.
ActiveOf(c) == active \cap BoxesOf(c)

\* C12. Activation exclusivity: in every reachable state at most one box of
\* each client carries the Active mark.
C12_Exclusive == \A c \in Clients : Cardinality(ActiveOf(c)) <= 1

\* The local client has activated Terrain and then Actor, the remote client
\* Terrain.
C12_Witness ==
    /\ last = [op |-> "activate", kind |-> "Actor", served |-> 1, stale |-> FALSE]
    /\ Len(sent) = 2
    /\ sent[1].type = "ActivateTerrainToolBox"
    /\ active = {LocalActor, <<2, "Terrain">>}

\* A step that serves an activation of client c.
Serves(c) ==
    \/ c = LocalClient /\ last'.op = "activate" /\ last'.served > 0
    \/ c # LocalClient /\ last'.op = "set_active" /\ last'.client = c

PendingSent ==
    /\ Len(sent') = Len(sent) + 1
    /\ sent'[Len(sent')].type = "UpdateSelectionBounds"
    /\ sent'[Len(sent')].client_id = LocalClient
    /\ sent'[Len(sent')].coord_pos = Pending'.coord_pos

\* C14. Last input wins: a run of the movement system (of the expansion
\* system) with two eligible inputs applies the delta of the second input
\* alone to the origin (to the dimensions) the client is to converge to, and
\* pushes exactly one UpdateSelectionBounds.
C14_LastInput ==
    [][/\ \A acts \in TwoMoveInputs, b \in BoxesOf(LocalClient) :
              (last'.op = "movement" /\ last'.input = acts[2] /\ MovementSystem(acts, b)) =>
                  LET d == AdjustedMovement(adjusted[b], Movement(acts[2]))
                      from == IF LocalUpdates = {} THEN coord_pos[b]
                              ELSE Pending.coord_pos
                  IN  /\ Cardinality(LocalUpdates') = 1
                      /\ Pending'.coord_pos = VAdd(from, d)
                      /\ PendingSent
       /\ \A acts \in TwoExpandInputs :
              (last'.op = "expansion" /\ last'.input = acts[2] /\ ExpansionSystem(acts)) =>
                  LET e == AdjustedExpansion(adjusted[LocalTerrain], Expansion(acts[2]))
                      to == IF LocalUpdates = {}
                            THEN ExpandedDimensions(aabb[LocalTerrain].dimensions, e)
                            ELSE VAdd(Pending.aabb.dimensions, e)
                  IN  /\ Cardinality(LocalUpdates') = 1
                      /\ Pending'.aabb.dimensions = to
                      /\ PendingSent
                      /\ sent'[Len(sent')].aabb = Pending'.aabb]_vars

\* A tick of the movement system with two eligible inputs, the second being
\* move_left, has moved the target from its origin by (-1, 0, 0) alone, and
\* a tick of the expansion system whose second input is expand_selection_up
\* has then made the target one cell higher and no wider.
C14_Witness ==
    /\ last = [op |-> "expansion", input |-> "expand_selection_up"]
    /\ Len(trail) = 2
    /\ trail[1].op = "move"
    /\ trail[1].delta = <<-1, 0, 0>>
    /\ BoundsSentSince(trail[1].mark)[1].coord_pos = VAdd(trail[1].from, <<-1, 0, 0>>)
    /\ Pending.aabb.dimensions = <<1, 2, 1>>

\* The UpdateBounds entities of client c.
UpdatesOf(c) == {i \in 1..Len(updates) : updates[i].id = c}

\* C15. In every state each client has at most one UpdateBounds, whatever
\* the order of movements, expansions (a movement and an expansion without a
\* reconciliation in between included) and reconciliations.
C15_OnePending == \A c \in Clients : Cardinality(UpdatesOf(c)) <= 1

\* A movement and an expansion of the same tick, neither reconciled: the
\* expansion has found the UpdateBounds the movement pushed.
C15_Witness ==
    /\ Len(trail) = 2
    /\ trail[1].op = "move"
    /\ trail[2].op = "expand"
    /\ Cardinality(UpdatesOf(LocalClient)) = 1
    /\ Pending.coord_pos # coord_pos[LocalTerrain]
    /\ Pending.aabb.dimensions # aabb[LocalTerrain].dimensions

\* C16. Non-zero dimensions: in a state with no UpdateBounds left (Idle), no
\* component of the live dimensions of a box is zero.
C16_NonZero ==
    updates = <<>> =>
        \A b \in Boxes, k \in 1..3 : aabb[b].dimensions[k] # 0

\* The UpdateBounds of client c, in order.
PendingOf(c) == SelectSeq(updates, LAMBDA u : u.id = c)

\* The clients a step acts for: the local client for its input and
\* activation systems, the client named for set_active_selection_box and for
\* a delivery, none for a reconciliation (whose effect on a client is
\* compared with that client's own UpdateBounds).
ActsFor ==
    IF last'.op \in {"movement", "expansion", "rotation", "request", "activate"}
    THEN {LocalClient}
    ELSE IF last'.op \in {"set_active", "receive"} THEN {last'.client}
    ELSE {}

\* C17. Cross-client isolation: a step that handles an input or an
\* activation of client A, or a delivery for A, leaves the origin, the
\* dimensions, the Active mark and the UpdateBounds of every other client B as
\* they are; a reconciliation gives a box of B either what it had or what the
\* first UpdateBounds carrying B's id held, and removes no UpdateBounds of B
\* but that one.
C17_Isolation ==
    [][\A B \in Clients :
          /\ (ActsFor # {} /\ B \notin ActsFor) =>
                 /\ \A b \in BoxesOf(B) : coord_pos'[b] = coord_pos[b] /\ aabb'[b] = aabb[b]
                 /\ ActiveOf(B)' = ActiveOf(B)
                 /\ PendingOf(B)' = PendingOf(B)
          /\ last'.op = "update_bounds" =>
                 /\ ActiveOf(B)' = ActiveOf(B)
                 /\ IF PendingOf(B) = <<>>
                    THEN /\ \A b \in BoxesOf(B) :
                                coord_pos'[b] = coord_pos[b] /\ aabb'[b] = aabb[b]
                         /\ PendingOf(B)' = <<>>
                    ELSE /\ \A b \in BoxesOf(B) :
                                /\ coord_pos'[b] = PendingOf(B)[1].coord_pos
                                /\ aabb'[b] \in {aabb[b], PendingOf(B)[1].aabb}
                         /\ PendingOf(B)' = Tail(PendingOf(B))]_vars

\* Both clients had an UpdateBounds and one reconciliation has applied each
\* to its own client: the local Terrain box holds the moved origin, the
\* remote Active Terrain box the delivered origin and dimensions.
C17_Witness ==
    /\ last.op = "update_bounds"
    /\ updates = <<>>
    /\ coord_pos[LocalTerrain] = <<0, 0, 1>>
    /\ aabb[LocalTerrain].dimensions = Ones
    /\ coord_pos[<<2, "Terrain">>] = <<5, 0, 0>>
    /\ aabb[<<2, "Terrain">>].dimensions = <<2, 1, 1>>
    /\ <<2, "Terrain">> \in active

\* The MapChange a tile tool step is to emit: over the live origin and
\* dimensions of the local Terrain box, tagged with the local client.
ExpectedChange ==
    LET box == [center |-> coord_pos[LocalTerrain],
                dimensions |-> aabb[LocalTerrain].dimensions]
    IN  IF last'.action = "insertion"
        THEN [type |-> "MapChange", store_history |-> LocalClient,
              change |-> "MapInsertion", aabb |-> box, tile_data |-> last'.tile]
        ELSE [type |-> "MapChange", store_history |-> LocalClient,
              change |-> "MapRemoval", aabb |-> box]

\* C18. Terrain edit validation: a run of the tile tool on the Active
\* Terrain box pushes one MapChange (MapInsertion or MapRemoval over the
\* box's origin and dimensions, tagged with the local client) when the
\* validator accepts, and only then; a rejected attempt pushes nothing and
\* leaves the boxes, the Active marks, the UpdateBounds and the requests as
\* they were, so that nothing is left to retry.  No other system pushes a
\* MapChange.
C18_Validation ==
    [][/\ last'.op = "tile_tool" =>
              /\ LocalTerrain \in active
              /\ last'.accepted => sent' = Append(sent, ExpectedChange)
              /\ ~last'.accepted => sent' = sent
              /\ UNCHANGED <<coord_pos, aabb, active, visible, adjusted, rotation,
                             entity_ref, freed, updates, requests>>
       /\ last'.op # "tile_tool" =>
              \A i \in 1..Len(sent') : i > Len(sent) => sent'[i].type # "MapChange"]_vars

\* An insertion was accepted on a box that had been expanded and reconciled,
\* and a removal on the same box was then rejected: the last message is
\* still the insertion.
C18_Witness ==
    /\ last = [op |-> "tile_tool", action |-> "removal", tile |-> 0, accepted |-> FALSE]
    /\ updates = <<>>
    /\ Len(sent) = 3
    /\ sent[2].type = "UpdateSelectionBounds"
    /\ sent[3] = [type |-> "MapChange", store_history |-> LocalClient,
                  change |-> "MapInsertion",
                  aabb |-> [center |-> coord_pos[LocalTerrain],
                            dimensions |-> <<2, 1, 1>>],
                  tile_data |-> 1]

C20_NoFault == ~fault

C22_PendingMove ==
    [][(last'.op = "movement" /\ LocalUpdates # {}) =>
          LET d == AdjustedMovement(adjusted[LocalTerrain], Movement(last'.input))
          IN  /\ UNCHANGED <<coord_pos, aabb>>
              /\ LocalUpdates' = LocalUpdates
              /\ Pending'.coord_pos = VAdd(Pending.coord_pos, d)
              /\ Pending'.aabb = Pending.aabb
              /\ Len(sent') = Len(sent) + 1
              /\ sent'[Len(sent')].type = "UpdateSelectionBounds"]_vars

\* A movement issued on top of an unreconciled expansion: the live box is
\* still the initial one, the UpdateBounds holds the expanded box at the
\* origin moved to.
C22_Witness ==
    /\ last.op = "movement"
    /\ Len(trail) = 2
    /\ trail[1].op = "expand"
    /\ coord_pos[LocalTerrain] = Zeros
    /\ aabb[LocalTerrain].dimensions = Ones
    /\ Pending.aabb.dimensions # Ones
    /\ Pending.coord_pos # Zeros

\* C23. Every UpdateSelectionBounds pushed for the local client carries the
\* origin and the box its UpdateBounds holds once the step is done.
C23_CarriesTarget ==
    [][last'.op \in {"movement", "expansion"} =>
          /\ Len(sent') = Len(sent) + 1
          /\ sent'[Len(sent')] = [type |-> "UpdateSelectionBounds",
                                  client_id |-> LocalClient,
                                  coord_pos |-> Pending'.coord_pos,
                                  aabb |-> Pending'.aabb]]_vars

\* C24. A run of the update-bounds system that finds an UpdateBounds of a
\* client with a selection box leaves that client without any, and a client
\* without an UpdateBounds gets one only by its next delta: a movement or an
\* expansion for the local client, a delivery for a remote one.
C24_BackToIdle ==
    [][\A c \in Clients :
          /\ (last'.op = "update_bounds" /\ BoxesOf(c) \cap created # {}) =>
                 UpdatesOf(c)' = {}
          /\ (UpdatesOf(c) = {} /\ UpdatesOf(c)' # {}) =>
                 IF c = LocalClient THEN last'.op \in {"movement", "expansion"}
                 ELSE last'.op = "receive" /\ last'.client = c]_vars

\* Both clients had an UpdateBounds, the local one holding a movement folded
\* into an expansion; one run has applied and removed both.
C24_Witness ==
    /\ last.op = "update_bounds"
    /\ updates = <<>>
    /\ aabb[LocalTerrain].dimensions # Ones
    /\ coord_pos[LocalActor] # Zeros
    /\ coord_pos[<<2, "Actor">>] = <<5, 0, 0>>
    /\ Len(sent) = MaxSent

\* C25. No timeout: an UpdateBounds is removed by the update-bounds system
\* alone.  A step of any other system (a later movement or expansion, an
\* activation of either tool by either client, a rotation, the creation of
\* boxes) leaves a client that has one with one, so that a client stays
\* with its UpdateBounds for as long as the update-bounds system does not
\* run.
C25_NoTimeout ==
    [][\A c \in Clients :
          (UpdatesOf(c) # {} /\ last'.op # "update_bounds") =>
              Cardinality(UpdatesOf(c)') = Cardinality(UpdatesOf(c))]_vars

\* The UpdateBounds of a movement has outlived an activation of the Actor
\* tool and a rotation.
C25_Witness ==
    /\ last.op = "rotation"
    /\ Len(trail) = 1
    /\ trail[1].mark = 0
    /\ sent[2].type = "ActivateActorToolBox"
    /\ Cardinality(UpdatesOf(LocalClient)) = 1
    /\ Pending.coord_pos = VAdd(trail[1].from, trail[1].delta)

C27_OneNotice ==
    [][\A k \in Kinds :
          LET type == IF k = "Terrain" THEN "ActivateTerrainToolBox"
                      ELSE "ActivateActorToolBox"
              new == {i \in (Len(sent) + 1)..Len(sent') : sent'[i].type = type}
          IN  /\ Cardinality(new) =
                     IF requests'[k] < requests[k] THEN requests[k] - requests'[k] ELSE 0
              /\ \A i \in new : sent'[i] = [type |-> type, client_id |-> LocalClient]
              /\ new # {} => requests'[k] = 0]_vars

\* Two requests for the Actor tool have been served one after the other,
\* each with its own notice, and none is left.
C27_Witness ==
    /\ last = [op |-> "activate", kind |-> "Actor", served |-> 1, stale |-> FALSE]
    /\ sent = <<[type |-> "ActivateActorToolBox", client_id |-> LocalClient],
                [type |-> "ActivateActorToolBox", client_id |-> LocalClient]>>
    /\ requests = [k \in Kinds |-> 0]
    /\ active = {LocalActor}

\* C28. Rotation bypasses the UpdateBounds: a run of the rotation system on
\* the Active Actor box pushes one ActorToolRotation per rotate command and
\* nothing else, composes the quarter turns it pushed into the
\* SelectionBoxRotation, exchanges the X and Z dimensions of the Actor box
\* once per command, and leaves every UpdateBounds, every origin and every
\* other box as they are.
C28_Bypass ==
    [][last'.op = "rotation" =>
          LET new == (Len(sent) + 1)..Len(sent')
              d == aabb[LocalActor].dimensions
              Turns[i \in Len(sent)..Len(sent')] ==
                  IF i = Len(sent) THEN rotation[LocalClient]
                  ELSE (Turns[i - 1] + sent'[i].rotation) % 4
          IN  /\ LocalActor \in active
              /\ new # {}
              /\ SubSeq(sent', 1, Len(sent)) = sent
              /\ \A i \in new :
                     /\ sent'[i].type = "ActorToolRotation"
                     /\ sent'[i].client_id = LocalClient
                     /\ sent'[i].rotation \in {-1, 1}
              /\ rotation'[LocalClient] = Turns[Len(sent')]
              /\ aabb'[LocalActor].dimensions =
                     IF Cardinality(new) % 2 = 1 THEN <<d[3], d[2], d[1]>> ELSE d
              /\ \A b \in Boxes \ {LocalActor} : aabb'[b] = aabb[b]
              /\ UNCHANGED <<updates, coord_pos>>]_vars

\* A rotate-left on the Active Actor box while the UpdateBounds of a
\* movement waits: the rotation is a quarter turn, the UpdateBounds is still
\* the movement's, and no origin has moved.
C28_Witness ==
    /\ last = [op |-> "rotation", input |-> "rotate_selection_left"]
    /\ rotation[LocalClient] = 1
    /\ sent[Len(sent)] = [type |-> "ActorToolRotation", client_id |-> LocalClient,
                           rotation |-> 1]
    /\ Cardinality(LocalUpdates) = 1
    /\ Pending.coord_pos # Zeros
    /\ coord_pos[LocalActor] = Zeros

\* C29. Missing linkage is a no-op: a run of the rotation system on an Actor
\* box that has no EntityRef leaves the SelectionBoxRotation, the boxes and
\* the origins as they are.
C29_NoLinkNoOp ==
    [][(last'.op = "rotation" /\ entity_ref[LocalClient] = NoEntity) =>
          UNCHANGED <<rotation, aabb, coord_pos>>]_vars

\* C30. Tool exclusivity.  A press of insertion or removal is read by the
\* tile tool and by the actor tool against the same Active marks.  A run of
\* the actor tool that pushes anything pushes ActorChange alone, with the
\* local Actor box Active and the local Terrain box not; a run of the tile
\* tool that pushes anything pushes MapChange alone, with the Terrain box
\* Active and the Actor box not, so that the other tool pushes nothing for
\* the same press; no other system pushes either; and while no box of the
\* local client is Active neither is pushed.
C30_Exclusive ==
    [][LET new == {sent'[i].type : i \in (Len(sent) + 1)..Len(sent')}
       IN  /\ "ActorChange" \in new =>
                  /\ last'.op = "actor_tool"
                  /\ new = {"ActorChange"}
                  /\ LocalActor \in active
                  /\ LocalTerrain \notin active
           /\ "MapChange" \in new =>
                  /\ last'.op = "tile_tool"
                  /\ new = {"MapChange"}
                  /\ LocalTerrain \in active
                  /\ LocalActor \notin active
           /\ ActiveOf(LocalClient) = {} => new \cap {"ActorChange", "MapChange"} = {}]_vars

\* A removal pressed on the Active Actor box has pushed one ActorRemoval per
\* actor found, after the Terrain tool had been active and left.
C30_Witness ==
    /\ last = [op |-> "actor_tool", action |-> "removal"]
    /\ sent[1].type = "ActivateTerrainToolBox"
    /\ sent[Len(sent)] = [type |-> "ActorChange", store_history |-> LocalClient,
                           change |-> "ActorRemoval", actor_id |-> 22]
    /\ active = {LocalActor}

\* C31. Preview link validity.  After every palette-selection change the
\* Actor box of the client has no EntityRef, or its EntityRef names a preview
\* whose node has not been freed.
C31_LinkValid ==
    \A c \in Clients : entity_ref[c] = NoEntity \/ ~freed[c]

\* C32. Outline buffer structure.  The buffers of every box whose outline
\* has been built, once or many times over whatever they held, hold 96
\* vertices, 96 normals, 96 UVs and 144 indices; every index lies in 0..95
\* and the 48 indices of face pair n (n = 0, 1, 2) lie in 32n .. 32n + 31.
C32_Buffers ==
    \A b \in Boxes :
        mesh[b].built =>
            LET m == mesh[b]
            IN  /\ m.verts = 96 /\ m.normals = 96 /\ m.uvs = 96
                /\ Len(m.indices) = 144
                /\ \A i \in 1..144 :
                       LET n == (i - 1) \div 48
                       IN  /\ m.indices[i] >= 0 /\ m.indices[i] < 96
                           /\ m.indices[i] >= 32 * n /\ m.indices[i] <= 32 * n + 31

\* The outline of a box has been rebuilt over a full buffer, after the box
\* changed size.
C32_Witness ==
    /\ last.op = "mesh"
    /\ Len(trail) = 0
    /\ aabb[LocalTerrain].dimensions # Ones
    /\ mesh[LocalTerrain].verts = 96
    /\ mesh[LocalTerrain].margin # mesh[<<LocalClient, "Actor">>].margin
    /\ mesh[LocalTerrain].indices[144] = 93

\* C33. Delta mapping.  Under a basis whose forward and right are grid axes,
\* the delta of a movement input is input.z times the signs of the
\* horizontal components of forward plus input.x times those of right, with
\* y passed through, and is a unit step along one grid axis; the delta of an
\* expansion input is the same with the absolute values of the signs, so it
\* is the same for the negated basis.
C33_DeltaMapping ==
    [][last'.op \in {"movement", "expansion"} =>
          LET delta == trail'[Len(trail')].delta
              input == IF last'.op = "movement" THEN Movement(last'.input)
                       ELSE Expansion(last'.input)
              f == adjusted[LocalTerrain].forward
              r == adjusted[LocalTerrain].right
              mapped(fx, fz, rx, rz) ==
                  <<input[3] * fx + input[1] * rx, input[2], input[3] * fz + input[1] * rz>>
          IN  /\ f \in Cardinals /\ r \in Cardinals
              /\ adjusted[LocalActor] = adjusted[LocalTerrain]
              /\ Abs(delta[1]) + Abs(delta[2]) + Abs(delta[3]) = 1
              /\ last'.op = "movement" =>
                     delta = mapped(Sign(f[1]), Sign(f[3]), Sign(r[1]), Sign(r[3]))
              /\ last'.op = "expansion" =>
                     /\ delta = mapped(Abs(Sign(f[1])), Abs(Sign(f[3])),
                                       Abs(Sign(r[1])), Abs(Sign(r[3])))
                     /\ delta = AdjustedExpansion([forward |-> VNeg(f), right |-> VNeg(r)],
                                                  input)]_vars

\* An expansion to the left has been issued under a basis whose right is -X:
\* its delta is (-1,0,0), where a movement to the left would go to +X.
C33_Witness ==
    /\ last = [op |-> "expansion", input |-> "expand_selection_left"]
    /\ camera # NoCamera
    /\ adjusted[LocalTerrain].right = VNeg(UnitX)
    /\ trail[Len(trail)].delta = <<-1, 0, 0>>

\* C34. Movement leaves dimensions alone.  A reconciliation of an
\* UpdateBounds that movement deltas alone have made and changed, with no
\* other command issued since the client was Idle, leaves the dimensions of
\* both boxes of the client as they were.
C34_DimensionsKept ==
    [][(/\ last'.op = "update_bounds"
        /\ trail # <<>>
        /\ \A i \in 1..Len(trail) : trail[i].op = "move"
        /\ Len(sent) = trail[1].mark + Len(trail))
       => \A b \in BoxesOf(LocalClient) :
              aabb'[b].dimensions = aabb[b].dimensions]_vars

C36_Gated ==
    [][/\ LocalTerrain \notin active => last'.op # "expansion"
       /\ last'.op = "expansion" =>
              /\ LocalTerrain \in active
              /\ LocalActor \notin active]_vars

\* The Actor box is Active while an UpdateBounds that an expansion of the
\* Terrain box made is still in the world, after an expansion.
C36_Witness ==
    /\ active = {LocalActor}
    /\ Since("expand", 1)
    /\ Cardinality(LocalUpdates) = 1
    /\ Pending.aabb.dimensions # Ones
    /\ aabb[LocalTerrain].dimensions = Ones

\* C37. Coalesced expansion equals sequential expansion.  When two
\* expansions e1, e2 have been issued from Idle with no reconciliation in
\* between, the origin and the dimensions of the UpdateBounds are the ones
\* that the live box would have after e1, a reconciliation, e2 and a second
\* reconciliation: the helper applied to the live box for e1, and to the
\* box it leaves for e2.
C37_Coalesced ==
    (Since("expand", 2) /\ Cardinality(LocalUpdates) = 1) =>
        LET dir == adjusted[LocalTerrain]
            h1 == expansion_movement_helper(trail[1].delta, dir, aabb[LocalTerrain])
            pos1 == VSub(trail[1].from, h1.diff)
            h2 == expansion_movement_helper(trail[2].delta, dir, h1.new_aabb)
            pos2 == VSub(pos1, h2.diff)
        IN  /\ Pending.coord_pos = pos2
            /\ Pending.aabb = h2.new_aabb

\* C38. Rotation survives reconciliation.  When the Active Actor box has
\* been turned while an UpdateBounds made by a movement was outstanding, the
\* reconciliation of that UpdateBounds leaves the dimensions of the box as
\* the rotation left them.  The movement is one that captured the Actor box
\* itself, as it was before the turn.
C38_RotationKept ==
    [][(/\ last'.op = "update_bounds"
        /\ last.op = "rotation"
        /\ Since("move", 1)
        /\ LocalActor \in active
        /\ Pending.aabb.dimensions # aabb[LocalTerrain].dimensions)
       => aabb'[LocalActor].dimensions = aabb[LocalActor].dimensions]_vars

====
